---- MODULE Spec2Model ----
(***************************************************************************)
(* Model of src/main.py: the four financial functions (gordon_model,       *)
(* dcf_model, predict_future_prices, calculate_rsi_manual), the            *)
(* recommendation rules (generate_recommendation) and the script's         *)
(* individual-analysis tab that chains them.                               *)
(*                                                                         *)
(* Floats are modelled as exact rationals extended with the IEEE values    *)
(* inf and nan.  A value is a record [k, n, d]:                            *)
(*   k = "num"   the rational n/d, d > 0, in lowest terms                  *)
(*   k = "inf"   +inf (n = 1) or -inf (n = -1)                             *)
(*   k = "nan"   not-a-number (pandas' missing-value marker)               *)
(*   k = "None"  Python's None                                             *)
(*   k = "Unbound"  a name the script has not assigned                     *)
(*   k = an exception name: the evaluation raised it                       *)
(***************************************************************************)
EXTENDS Integers, Sequences, FiniteSets, TLC

VARIABLES op, args, result, pc, globals

vars == <<op, args, result, pc, globals>>

-----------------------------------------------------------------------------
(* Bounds of the model *)

MaxDividend == 3
MaxRateIx == 3
MaxFlows == 2
MaxCash == 2
MaxLen == 4
MaxClose == 4
MaxDays == 2
MaxPeriod == 3

-----------------------------------------------------------------------------
(* Float arithmetic *)

Abs(x) == IF x < 0 THEN -x ELSE x

Sign(x) == IF x < 0 THEN -1 ELSE IF x > 0 THEN 1 ELSE 0

RECURSIVE GCD(_, _)
GCD(a, b) == IF b = 0 THEN a ELSE GCD(b, a % b)

Num(n, d) ==
    LET g == GCD(Abs(n), Abs(d))
    IN  [k |-> "num", n |-> Sign(d) * (n \div g), d |-> Abs(d) \div g]

Zero == Num(0, 1)
One == Num(1, 1)
Inf(s) == [k |-> "inf", n |-> s, d |-> 1]
NaN == [k |-> "nan", n |-> 0, d |-> 1]
None == [k |-> "None", n |-> 0, d |-> 1]
Unbound == [k |-> "Unbound", n |-> 0, d |-> 1]
Raise(e) == [k |-> e, n |-> 0, d |-> 1]

Exceptions == {"ZeroDivisionError", "ValueError", "IndexError", "TypeError", "NameError"}

IsRaise(v) == v.k \in Exceptions
IsNum(v) == v.k = "num"

\* the exception of the first operand that raised, if any
Raised(a, b) == IF IsRaise(a) THEN a ELSE b

Neg(a) ==
    IF a.k = "num" THEN Num(-a.n, a.d)
    ELSE IF a.k = "inf" THEN Inf(-a.n)
    ELSE a

Add(a, b) ==
    IF IsRaise(a) \/ IsRaise(b) THEN Raised(a, b)
    ELSE IF a.k = "nan" \/ b.k = "nan" THEN NaN
    ELSE IF a.k = "inf" /\ b.k = "inf" THEN (IF a.n = b.n THEN a ELSE NaN)
    ELSE IF a.k = "inf" THEN a
    ELSE IF b.k = "inf" THEN b
    ELSE Num(a.n * b.d + b.n * a.d, a.d * b.d)

Sub(a, b) == Add(a, Neg(b))

Mul(a, b) ==
    IF IsRaise(a) \/ IsRaise(b) THEN Raised(a, b)
    ELSE IF a.k = "nan" \/ b.k = "nan" THEN NaN
    ELSE IF a.k = "inf" \/ b.k = "inf"
         THEN (IF a.n = 0 \/ b.n = 0 THEN NaN ELSE Inf(Sign(a.n) * Sign(b.n)))
    ELSE Num(a.n * b.n, a.d * b.d)

\* a / b.  Division by zero raises ZeroDivisionError when both operands are
\* Python numbers; when one of them is a numpy float64 (np) it follows
\* IEEE 754: x/0 is +-inf, 0/0 is nan.
Div(a, b, np) ==
    IF IsRaise(a) \/ IsRaise(b) THEN Raised(a, b)
    ELSE IF a.k = "nan" \/ b.k = "nan" THEN NaN
    ELSE IF b.k = "inf"
         THEN (IF a.k = "inf" THEN NaN ELSE Zero)
    ELSE IF b.n = 0
         THEN (IF ~np THEN Raise("ZeroDivisionError")
               ELSE IF a.n = 0 THEN NaN ELSE Inf(Sign(a.n)))
    ELSE IF a.k = "inf" THEN Inf(a.n * Sign(b.n))
    ELSE Num(a.n * b.d, a.d * b.n)

RECURSIVE Pow(_, _)
Pow(a, e) == IF e = 0 THEN One ELSE Mul(a, Pow(a, e - 1))

\* a <= b and a > b on finite numbers
Le(a, b) == a.n * b.d <= b.n * a.d
Gt(a, b) == a.n * b.d > b.n * a.d

\* v > 0 and v <= 0 as float comparisons: both are False on nan
Gt0(v) == v.k \in {"num", "inf"} /\ v.n > 0
Le0(v) == v.k \in {"num", "inf"} /\ v.n <= 0

-----------------------------------------------------------------------------
(* Input domains *)

Int2Num(S) == {Num(i, 1) : i \in S}

Dividends == Int2Num(0..MaxDividend)

\* rates -1/2, 0, 1/2, 1, ...
Rates == {Num(ix - 1, 2) : ix \in 0..MaxRateIx}

SeqsUpTo(S, len) == UNION {[1..l -> S] : l \in 0..len}

CashFlowLists == SeqsUpTo(Int2Num(-1..MaxCash), MaxFlows)

CloseSeries == SeqsUpTo(Int2Num(0..MaxClose), MaxLen)

-----------------------------------------------------------------------------
(* Valuation: gordon_model, dcf_model *)

gordon_model_no_equal_guard(dividend, growth_rate, discount_rate) ==
    IF ~Le(discount_rate, growth_rate) \/ discount_rate = growth_rate
    THEN Div(dividend, Sub(discount_rate, growth_rate), FALSE)
    ELSE None

gordon_model(dividend, growth_rate, discount_rate) ==
    IF Le(discount_rate, growth_rate)
    THEN None
    ELSE Div(dividend, Sub(discount_rate, growth_rate), FALSE)

\* the loop of dcf_model after its first i rounds (Python's i runs 0..i-1)
RECURSIVE dcf_loop(_, _, _, _)
dcf_loop(cash_flows, discount_rate, np, i) ==
    IF i = 0 THEN Zero
    ELSE Add(dcf_loop(cash_flows, discount_rate, np, i - 1),
             Div(cash_flows[i], Pow(Add(One, discount_rate), i), np))

dcf_model_late_terminal(cash_flows, discount_rate, terminal_growth_rate, np) ==
    IF cash_flows = <<>> THEN None
    ELSE LET n == Len(cash_flows)
             present_value == dcf_loop(cash_flows, discount_rate, np, n)
             terminal_value ==
                 Div(Mul(cash_flows[n], Add(One, terminal_growth_rate)),
                     Sub(discount_rate, terminal_growth_rate), np)
         IN  Add(present_value,
                 Div(terminal_value, Pow(Add(One, discount_rate), n + 1), np))

\* np: the cash flows are numpy float64 (as the script passes them) rather
\* than Python numbers
dcf_model(cash_flows, discount_rate, terminal_growth_rate, np) ==
    IF cash_flows = <<>> THEN None
    ELSE LET n == Len(cash_flows)
             present_value == dcf_loop(cash_flows, discount_rate, np, n)
             terminal_value ==
                 Div(Mul(cash_flows[n], Add(One, terminal_growth_rate)),
                     Sub(discount_rate, terminal_growth_rate), np)
         IN  Add(present_value,
                 Div(terminal_value, Pow(Add(One, discount_rate), n), np))

-----------------------------------------------------------------------------
(* Series: a numpy array / pandas column is [k |-> "array", v |-> <<...>>] *)

Array(s) == [k |-> "array", n |-> 0, d |-> 1, v |-> s]

RECURSIVE SumTo(_, _)
SumTo(s, i) == IF i = 0 THEN Zero ELSE Add(SumTo(s, i - 1), s[i])

Sum(s) == SumTo(s, Len(s))

Mean(s) == Div(Sum(s), Num(Len(s), 1), TRUE)

-----------------------------------------------------------------------------
(* Trend forecast: predict_future_prices *)

\* LinearRegression().fit(X, y) with one feature: X and y are centred on
\* their means, coef_ is the minimum-norm least-squares solution of the
\* centred system (0 when the centred X is all zero) and intercept_ is
\* mean(y) - mean(X) * coef_.  Returns <<coef_, intercept_>>.
LinearRegressionFit(X, y) ==
    LET n == Len(X)
        X_offset == Mean(X)
        y_offset == Mean(y)
        Xc == [i \in 1..n |-> Sub(X[i], X_offset)]
        yc == [i \in 1..n |-> Sub(y[i], y_offset)]
        Sxx == Sum([i \in 1..n |-> Mul(Xc[i], Xc[i])])
        Sxy == Sum([i \in 1..n |-> Mul(Xc[i], yc[i])])
        coef == IF Sxx = Zero THEN Zero ELSE Div(Sxy, Sxx, TRUE)
    IN  <<coef, Sub(y_offset, Mul(X_offset, coef))>>

predict_future_prices_from_last(data, days) ==
    IF Len(data) = 0 THEN Raise("ValueError")
    ELSE LET L == Len(data)
             X == [i \in 1..L |-> Num(i - 1, 1)]
             model == LinearRegressionFit(X, data)
             future_X == [j \in 1..days |-> Num(L - 1 + j - 1, 1)]
         IN  Array([j \in 1..days |-> Add(Mul(model[1], future_X[j]), model[2])])

\* data: the 'Close' column.  fit() rejects an array of 0 samples with
\* ValueError; one sample is enough for it.
predict_future_prices(data, days) ==
    IF Len(data) = 0 THEN Raise("ValueError")
    ELSE LET L == Len(data)
             X == [i \in 1..L |-> Num(i - 1, 1)]
             model == LinearRegressionFit(X, data)
             future_X == [j \in 1..days |-> Num(L + j - 1, 1)]
         IN  Array([j \in 1..days |-> Add(Mul(model[1], future_X[j]), model[2])])

-----------------------------------------------------------------------------
(* Technical indicator: calculate_rsi_manual *)

\* data['Close'].diff(): the first entry is nan
Diff(close) ==
    [i \in 1..Len(close) |-> IF i = 1 THEN NaN ELSE Sub(close[i], close[i - 1])]

\* delta.where(delta > 0, 0) and -delta.where(delta < 0, 0): an entry whose
\* condition is False (nan included) becomes 0
Gains(delta) == [i \in 1..Len(delta) |-> IF Gt0(delta[i]) THEN delta[i] ELSE Zero]

Losses(delta) ==
    [i \in 1..Len(delta) |->
        IF delta[i].k = "num" /\ delta[i].n < 0 THEN Neg(delta[i]) ELSE Zero]

RECURSIVE WindowSum(_, _, _)
WindowSum(s, from, to) ==
    IF from > to THEN Zero ELSE Add(WindowSum(s, from, to - 1), s[to])

RollingMean_partial_windows(s, window) ==
    [i \in 1..Len(s) |->
        LET from == IF i < window THEN 1 ELSE i - window + 1
        IN  Div(WindowSum(s, from, i), Num(i - from + 1, 1), TRUE)]

\* s.rolling(window=window).mean(): nan until the window is full
RollingMean(s, window) ==
    [i \in 1..Len(s) |->
        IF i < window THEN NaN
        ELSE Div(WindowSum(s, i - window + 1, i), Num(window, 1), TRUE)]

Hundred == Num(100, 1)

calculate_rsi_manual(data, period) ==
    LET delta == Diff(data)
        gain == RollingMean(Gains(delta), period)
        loss == RollingMean(Losses(delta), period)
        rs == [i \in 1..Len(data) |-> Div(gain[i], loss[i], TRUE)]
    IN  Array([i \in 1..Len(data) |->
                  Sub(Hundred, Div(Hundred, Add(One, rs[i]), TRUE))])

-----------------------------------------------------------------------------
(* Recommendation: generate_recommendation *)

Pair(s, r) == [k |-> "pair", n |-> 0, d |-> 1, strength |-> s, recommendation |-> r]

InsufficientData ==
    Pair("Dados insuficientes", "Não é possível gerar uma recomendação.")
StrongOpportunity ==
    Pair("Forte Oportunidade",
         "Considerar investimento. O ativo está subvalorizado e tem potencial de crescimento.")
ModerateUndervalued ==
    Pair("Oportunidade Moderada",
         "Considerar investimento. O ativo está subvalorizado, mas o crescimento futuro é incerto.")
ModerateCaution ==
    Pair("Oportunidade Moderada",
         "Cautela. O ativo pode estar sobrevalorizado, mas há potencial de crescimento.")
WeakOpportunity ==
    Pair("Fraca Oportunidade",
         "Evitar investimento. O ativo está sobrevalorizado e com baixo potencial de crescimento.")

\* future_prices[-1]
Last(future_prices) ==
    IF future_prices.k # "array" THEN Raise("TypeError")
    ELSE IF future_prices.v = <<>> THEN Raise("IndexError")
    ELSE future_prices.v[Len(future_prices.v)]

\* the decision table of generate_recommendation, lines 125-136
DecisionTable(margin, future_growth) ==
    IF Gt0(margin) /\ Gt0(future_growth) THEN StrongOpportunity
    ELSE IF Gt0(margin) /\ Le0(future_growth) THEN ModerateUndervalued
    ELSE IF Le0(margin) /\ Gt0(future_growth) THEN ModerateCaution
    ELSE WeakOpportunity

generate_recommendation_no_forecast_check(fair_price, current_price, future_prices, np) ==
    IF fair_price = None \/ current_price = None
    THEN InsufficientData
    ELSE LET margin == Sub(fair_price, current_price)
             future_growth ==
                 Mul(Div(Sub(Last(future_prices), current_price), current_price, np),
                     Hundred)
         IN  IF IsRaise(future_growth) THEN future_growth
             ELSE DecisionTable(margin, future_growth)

\* np: current_price and future_prices are numpy values (as the script passes
\* them) rather than Python numbers
generate_recommendation(fair_price, current_price, future_prices, np) ==
    IF fair_price = None \/ current_price = None \/ future_prices = None
    THEN InsufficientData
    ELSE LET margin == Sub(fair_price, current_price)
             future_growth ==
                 Mul(Div(Sub(Last(future_prices), current_price), current_price, np),
                     Hundred)
         IN  IF IsRaise(future_growth) THEN future_growth
             ELSE DecisionTable(margin, future_growth)

Prices == Int2Num(0..MaxClose)

OptionalPrices == Prices \cup {None}

Forecasts == {Array(s) : s \in SeqsUpTo(Prices, MaxDays)} \cup {None}

-----------------------------------------------------------------------------
(* The functions called on their own *)

NoArgs == [fn |-> "none"]

\* the script's module namespace at the start of a rerun: no name is bound
NoGlobals ==
    [data |-> Unbound, dividend |-> Unbound, growth_rate |-> Unbound,
     discount_rate |-> Unbound, cash_flows |-> Unbound,
     terminal_growth_rate |-> Unbound, fair_price_gordon |-> Unbound,
     fair_price_dcf |-> Unbound, future_prices |-> Unbound,
     current_price |-> Unbound, fair_price |-> Unbound,
     strength |-> Unbound, recommendation |-> Unbound]

Init ==
    /\ op = "none"
    /\ args = NoArgs
    /\ result = Unbound
    /\ pc = "start"
    /\ globals = NoGlobals

CallGordon ==
    /\ op = "none"
    /\ \E dividend \in Dividends, growth_rate \in Rates, discount_rate \in Rates :
          /\ args' = [fn |-> "gordon_model", dividend |-> dividend,
                      growth_rate |-> growth_rate, discount_rate |-> discount_rate]
          /\ result' = gordon_model(dividend, growth_rate, discount_rate)
    /\ op' = "gordon_model"
    /\ UNCHANGED <<pc, globals>>

CallDcf ==
    /\ op = "none"
    /\ \E cash_flows \in CashFlowLists, discount_rate \in Rates,
          terminal_growth_rate \in Rates, np \in BOOLEAN :
          /\ args' = [fn |-> "dcf_model", cash_flows |-> cash_flows,
                      discount_rate |-> discount_rate,
                      terminal_growth_rate |-> terminal_growth_rate, np |-> np]
          /\ result' = dcf_model(cash_flows, discount_rate, terminal_growth_rate, np)
    /\ op' = "dcf_model"
    /\ UNCHANGED <<pc, globals>>

CallPredict ==
    /\ op = "none"
    /\ \E data \in CloseSeries, days \in 1..MaxDays :
          /\ args' = [fn |-> "predict_future_prices", data |-> data, days |-> days]
          /\ result' = predict_future_prices(data, days)
    /\ op' = "predict_future_prices"
    /\ UNCHANGED <<pc, globals>>

CallRsi ==
    /\ op = "none"
    /\ \E data \in CloseSeries, period \in 1..MaxPeriod :
          /\ args' = [fn |-> "calculate_rsi_manual", data |-> data, period |-> period]
          /\ result' = calculate_rsi_manual(data, period)
    /\ op' = "calculate_rsi_manual"
    /\ UNCHANGED <<pc, globals>>

CallRecommendation ==
    /\ op = "none"
    /\ \E fair_price \in OptionalPrices, current_price \in OptionalPrices,
          future_prices \in Forecasts, np \in BOOLEAN :
          /\ args' = [fn |-> "generate_recommendation", fair_price |-> fair_price,
                      current_price |-> current_price,
                      future_prices |-> future_prices, np |-> np]
          /\ result' = generate_recommendation(fair_price, current_price,
                                               future_prices, np)
    /\ op' = "generate_recommendation"
    /\ UNCHANGED <<pc, globals>>

Next ==
    \/ CallGordon
    \/ CallDcf
    \/ CallPredict
    \/ CallRsi
    \/ CallRecommendation

Spec == Init /\ [][Next]_vars

-----------------------------------------------------------------------------
(* The individual-analysis tab of the script, lines 151-211.  One rerun of   *)
(* the script starts with no name bound; result holds what the tab ends     *)
(* with: the displayed (strength, recommendation) or the uncaught exception *)

Days == 30

ProviderError == Raise("IndexError")

\* what the market-data provider can answer for the ticker
FlowData == {Array(s) : s \in SeqsUpTo(Prices, 2)}
FlowCashFlows ==
    {Array(s) : s \in SeqsUpTo(Int2Num(-1..MaxCash), 1)} \cup {ProviderError}

\* f"{value:.2f}": None has no float format
Format2f(value) == IF value = None THEN Raise("TypeError") ELSE value

\* reading a name: NameError when it is not bound
Name(g, name) == IF g[name] = Unbound THEN Raise("NameError") ELSE g[name]

\* Python truthiness of a number or None
Truthy(v) == ~(v = None \/ v = Zero)

\* lines 153-159: stock.history(period="1y")
Fetch ==
    /\ pc = "start"
    /\ op = "none"
    /\ \E data \in FlowData : globals' = [globals EXCEPT !.data = data]
    /\ pc' = "gordon"
    /\ UNCHANGED <<op, args, result>>

\* lines 163-169: the Gordon estimate is computed, and bound, only when the
\* mean dividend is positive; its display formats it with :.2f
GordonStep ==
    /\ pc = "gordon"
    /\ \E dividend \in Dividends, growth_rate \in Rates, discount_rate \in Rates :
         LET g1 == [globals EXCEPT !.dividend = dividend,
                                   !.growth_rate = growth_rate,
                                   !.discount_rate = discount_rate]
             fair_price_gordon == gordon_model(dividend, growth_rate, discount_rate)
         IN  IF dividend.n > 0
             THEN /\ globals' = [g1 EXCEPT !.fair_price_gordon = fair_price_gordon]
                  /\ IF IsRaise(Format2f(fair_price_gordon))
                     THEN /\ pc' = "aborted"
                          /\ result' = Format2f(fair_price_gordon)
                     ELSE /\ pc' = "dcf"
                          /\ UNCHANGED result
             ELSE /\ globals' = g1
                  /\ pc' = "dcf"
                  /\ UNCHANGED result
    /\ UNCHANGED <<op, args>>

\* lines 171-181: everything from reading stock.cashflow on is inside the try,
\* whose handler only writes a message
DcfStep ==
    /\ pc = "dcf"
    /\ \E cashflow \in FlowCashFlows, terminal_growth_rate \in Rates :
         IF IsRaise(cashflow)
         THEN UNCHANGED globals
         ELSE LET fair_price_dcf ==
                      dcf_model(cashflow.v, globals.discount_rate,
                                terminal_growth_rate, TRUE)
              IN  globals' =
                      [globals EXCEPT !.cash_flows = cashflow,
                                      !.terminal_growth_rate = terminal_growth_rate,
                                      !.fair_price_dcf =
                                          IF IsRaise(fair_price_dcf) THEN @
                                          ELSE fair_price_dcf]
    /\ pc' = "forecast"
    /\ UNCHANGED <<op, args, result>>

\* lines 184-190: a failed forecast binds future_prices to None
ForecastStep ==
    /\ pc = "forecast"
    /\ LET future_prices == predict_future_prices(globals.data.v, Days)
       IN  globals' = [globals EXCEPT !.future_prices =
                          IF IsRaise(future_prices) THEN None ELSE future_prices]
    /\ pc' = "recommendation"
    /\ UNCHANGED <<op, args, result>>

\* line 194: data['Close'].iloc[-1]
\* line 195: fair_price_gordon if fair_price_gordon else fair_price_dcf
\* lines 198-211: display, generate_recommendation
RecommendationStep ==
    /\ pc = "recommendation"
    /\ LET current_price ==
               IF globals.data.v = <<>> THEN Raise("IndexError")
               ELSE Last(globals.data)
           gordon == Name(globals, "fair_price_gordon")
           fair_price ==
               IF IsRaise(gordon) THEN gordon
               ELSE IF Truthy(gordon) THEN gordon
               ELSE Name(globals, "fair_price_dcf")
           pair == generate_recommendation(fair_price, current_price,
                                           globals.future_prices, TRUE)
       IN  IF IsRaise(current_price)
           THEN /\ pc' = "aborted"
                /\ result' = current_price
                /\ UNCHANGED globals
           ELSE IF IsRaise(fair_price)
           THEN /\ pc' = "aborted"
                /\ result' = fair_price
                /\ globals' = [globals EXCEPT !.current_price = current_price]
           ELSE IF IsRaise(pair)
           THEN /\ pc' = "aborted"
                /\ result' = pair
                /\ globals' = [globals EXCEPT !.current_price = current_price,
                                              !.fair_price = fair_price]
           ELSE /\ pc' = "done"
                /\ result' = pair
                /\ globals' = [globals EXCEPT !.current_price = current_price,
                                              !.fair_price = fair_price,
                                              !.strength = pair.strength,
                                              !.recommendation = pair.recommendation]
    /\ UNCHANGED <<op, args>>

FlowNext ==
    \/ Fetch
    \/ GordonStep
    \/ DcfStep
    \/ ForecastStep
    \/ RecommendationStep

FlowSpec == Init /\ [][FlowNext]_vars

-----------------------------------------------------------------------------
(* Claims *)

\* C2: gordon_model returns dividend / (discount_rate - growth_rate), i.e. the
\* value v with v * (discount_rate - growth_rate) = dividend, whenever
\* discount_rate > growth_rate, and None whenever discount_rate <= growth_rate.
C2_GordonFormula ==
    op = "gordon_model" =>
        IF Gt(args.discount_rate, args.growth_rate)
        THEN /\ IsNum(result)
             /\ Mul(result, Sub(args.discount_rate, args.growth_rate)) = args.dividend
        ELSE result = None

C2_Witness ==
    /\ op = "gordon_model"
    /\ args.dividend = Num(3, 1)
    /\ args.growth_rate = Num(1, 2)
    /\ args.discount_rate = Num(1, 1)
    /\ result = Num(6, 1)

\* C1: dcf_model returns None, and neither raises nor returns a number, whenever
\* cash_flows is empty or discount_rate <= terminal_growth_rate.
C1_DcfRejectsInvalidRates ==
    (/\ op = "dcf_model"
     /\ \/ args.cash_flows = <<>>
        \/ Le(args.discount_rate, args.terminal_growth_rate))
    => result = None

\* the terminal-value side of C3's closed form, without a division:
\* sum over j = 1..i of cash_flows[j] * (1 + discount_rate)^(n - j)
RECURSIVE C3_CompoundedSum(_, _, _)
C3_CompoundedSum(cash_flows, discount_rate, i) ==
    IF i = 0 THEN Zero
    ELSE Add(C3_CompoundedSum(cash_flows, discount_rate, i - 1),
             Mul(cash_flows[i],
                 Pow(Add(One, discount_rate), Len(cash_flows) - i)))

\* C3: for non-empty cash_flows of length n and discount_rate >
\* terminal_growth_rate, dcf_model returns
\*   sum_{i=1..n} cf[i-1]/(1+r)^i + (cf[n-1]*(1+g)/(r-g)) / (1+r)^n,
\* stated multiplied through by (1+r)^n * (r-g):
\*   result*(1+r)^n*(r-g) = (sum_{i=1..n} cf[i-1]*(1+r)^(n-i))*(r-g) + cf[n-1]*(1+g)
C3_DcfFormula ==
    (/\ op = "dcf_model"
     /\ args.cash_flows # <<>>
     /\ Gt(args.discount_rate, args.terminal_growth_rate))
    => LET cf == args.cash_flows
           n == Len(cf)
           r == args.discount_rate
           g == args.terminal_growth_rate
       IN  /\ IsNum(result)
           /\ Mul(Mul(result, Pow(Add(One, r), n)), Sub(r, g))
                = Add(Mul(C3_CompoundedSum(cf, r, n), Sub(r, g)),
                      Mul(cf[n], Add(One, g)))

\* dcf_model([2, 1], 1, 1/2) = 2/2 + 1/4 + (1 * 3/2 / (1/2)) / 4 = 2
C3_Witness ==
    /\ op = "dcf_model"
    /\ args.cash_flows = <<Num(2, 1), Num(1, 1)>>
    /\ args.discount_rate = Num(1, 1)
    /\ args.terminal_growth_rate = Num(1, 2)
    /\ ~args.np
    /\ result = Num(2, 1)

AllPresent ==
    /\ args.fair_price # None
    /\ args.current_price # None
    /\ args.future_prices # None

\* the row of the spec's decision table for the signs of margin and growth
C4_Row(margin_pos, growth_pos) ==
    IF margin_pos /\ growth_pos THEN StrongOpportunity
    ELSE IF margin_pos THEN ModerateUndervalued
    ELSE IF growth_pos THEN ModerateCaution
    ELSE WeakOpportunity

\* C4: for every present fair_price, non-negative current_price and present
\* non-empty forecast, generate_recommendation returns without fault one of the
\* four rows, and (where the growth is defined, current_price > 0) the row
\* selected by the signs of margin = fair_price - current_price and of
\* forecast[last] - current_price.
C4_TotalDecisionTable ==
    (/\ op = "generate_recommendation"
     /\ AllPresent
     /\ args.current_price.n >= 0
     /\ args.future_prices.v # <<>>)
    => /\ result \in {StrongOpportunity, ModerateUndervalued,
                      ModerateCaution, WeakOpportunity}
       /\ args.current_price.n > 0 =>
            result = C4_Row(Gt(args.fair_price, args.current_price),
                            Gt(Last(args.future_prices), args.current_price))

\* C5: generate_recommendation returns the fixed 'insufficient data' pair
\* whenever fair_price, current_price or the forecast is None, whatever the
\* other two are, and never when all three are present.
C5_InsufficientData ==
    op = "generate_recommendation" =>
        (result = InsufficientData <=> ~AllPresent)

\* forecast absent, the other two present
C5_Witness ==
    /\ op = "generate_recommendation"
    /\ args.fair_price = Num(3, 1)
    /\ args.current_price = Num(2, 1)
    /\ args.future_prices = None
    /\ result = InsufficientData

\* the textbook least-squares line through (i, close[i]), i = 0..L-1:
\* slope = (L*Sxy - Sx*Sy) / (L*Sxx - Sx^2), intercept = (Sy - slope*Sx) / L
C6_Line(close) ==
    LET L == Len(close)
        Ln == Num(L, 1)
        Sx == Sum([i \in 1..L |-> Num(i - 1, 1)])
        Sy == Sum(close)
        Sxx == Sum([i \in 1..L |-> Num((i - 1) * (i - 1), 1)])
        Sxy == Sum([i \in 1..L |-> Mul(Num(i - 1, 1), close[i])])
        slope == Div(Sub(Mul(Ln, Sxy), Mul(Sx, Sy)),
                     Sub(Mul(Ln, Sxx), Mul(Sx, Sx)), FALSE)
    IN  <<slope, Div(Sub(Sy, Mul(slope, Sx)), Ln, FALSE)>>

\* close[i] = a + b*i for all i, with a = close[0] and b = close[1] - close[0]
C6_IsLinear(close) ==
    \A i \in 1..Len(close) :
        close[i] = Add(close[1], Mul(Sub(close[2], close[1]), Num(i - 1, 1)))

\* C6: on a series of length L >= 2, predict_future_prices returns exactly
\* `days` values, the k-th (k = 0..days-1) being the least-squares line through
\* (i, close[i]) evaluated at L + k; for an exactly linear series
\* close[i] = a + b*i that is a + b*(L + k).
C6_ForecastIsOls ==
    (op = "predict_future_prices" /\ Len(args.data) >= 2)
    => LET L == Len(args.data)
           line == C6_Line(args.data)
           a == args.data[1]
           b == Sub(args.data[2], args.data[1])
       IN  /\ result.k = "array"
           /\ Len(result.v) = args.days
           /\ \A j \in 1..args.days :
                /\ result.v[j] = Add(line[2], Mul(line[1], Num(L + j - 1, 1)))
                /\ C6_IsLinear(args.data)
                     => result.v[j] = Add(a, Mul(b, Num(L + j - 1, 1)))

\* [1, 2, 3, 4] with days = 2 gives [5, 6]
C6_Witness ==
    /\ op = "predict_future_prices"
    /\ args.data = <<Num(1, 1), Num(2, 1), Num(3, 1), Num(4, 1)>>
    /\ args.days = 2
    /\ result = Array(<<Num(5, 1), Num(6, 1)>>)

\* C7: predict_future_prices fails (raises) for every series of fewer than 2
\* observations, length 0 and length 1.
C7_ShortSeriesFails ==
    (op = "predict_future_prices" /\ Len(args.data) < 2) => IsRaise(result)

\* C8: wherever the trailing-window average loss is exactly zero (the window
\* being full), the RSI entry is 100.
C8_ZeroLossIsHundred ==
    op = "calculate_rsi_manual" =>
        LET loss == RollingMean(Losses(Diff(args.data)), args.period)
        IN  \A i \in 1..Len(args.data) :
                loss[i] = Zero => result.v[i] = Hundred

\* C9: calculate_rsi_manual returns one entry per input price; the entries at
\* (0-based) indices 0..period-2 are nan, every other entry is nan or a number,
\* and every number lies in [0, 100].
C9_RsiShapeAndRange ==
    op = "calculate_rsi_manual" =>
        /\ result.k = "array"
        /\ Len(result.v) = Len(args.data)
        /\ \A i \in 1..Len(result.v) :
             /\ result.v[i].k \in {"num", "nan"}
             /\ i <= args.period - 1 => result.v[i] = NaN
             /\ result.v[i].k = "num" =>
                  (Le(Zero, result.v[i]) /\ Le(result.v[i], Hundred))

\* [1, 2, 1] with period 2: warm-up, then 100 (no loss), then 50
C9_Witness ==
    /\ op = "calculate_rsi_manual"
    /\ args.data = <<Num(1, 1), Num(2, 1), Num(1, 1)>>
    /\ args.period = 2
    /\ result = Array(<<NaN, Hundred, Num(50, 1)>>)

\* C10: the individual-analysis flow never aborts on an unassigned
\* fair_price_gordon / fair_price_dcf (NameError) or on formatting an
\* unavailable value (TypeError): with no dividends, with Gordon unavailable or
\* with a failed DCF step it still ends by displaying a recommendation or the
\* 'insufficient data' pair.
C10_FlowReachesRecommendation ==
    ~(pc = "aborted" /\ result.k \in {"NameError", "TypeError"})

====
